---- MODULE Spec2Model ----
(***************************************************************************)
(* Scene assembly of the ASE importer (code/ASELoader.cpp).                 *)
(*                                                                          *)
(* Names are sequences of character codes ("A" is <<65>>), so that the      *)
(* case-insensitive comparison is computed, not assumed.  Array indices     *)
(* stored by the program (mesh indices, vertex indices, material indices)   *)
(* keep their 0-based values; TLA+ sequences are 1-based, so element i of   *)
(* a C array a is a[i + 1].  Pointers are indices into the owning           *)
(* sequence, NULL is 0.                                                     *)
(***************************************************************************)
EXTENDS Integers, Sequences, FiniteSets, TLC

VARIABLES
    pc,             \* position in the running stage
    m_vMeshes,      \* mParser->m_vMeshes : the raw meshes (ASE::Mesh)
    m_vMaterials,   \* mParser->m_vMaterials
    meshIt,         \* InternReadFile: the iterator i over m_vMeshes (0-based)
    avOutMeshes,    \* InternReadFile: the local avOutMeshes
    hParsed,        \* history: m_vMeshes as the parser left them
    hMaterials,     \* history: m_vMaterials as the parser left them
    sceneMeshes,    \* pcScene->mMeshes[0 .. mNumMeshes-1]
    mNumMaterials,  \* pcScene->mNumMaterials
    mMaterials,     \* pcScene->mMaterials
    pcIntMaterials, \* BuildMaterialIndices: the local pcIntMaterials
    matIt,          \* BuildMaterialIndices: iMat, iSubMat and iNum of the loop
    hKeys,          \* history: (mColors[3], mMaterialIndex) of each scene mesh
                    \* when BuildMaterialIndices starts
    hRewrites,      \* history: how often the loop rewrote each scene mesh
    nodes,          \* heap of aiNode objects, in allocation order
    mRootNode,      \* pcScene->mRootNode
    stack,          \* call stack of the recursive AddNodes
    ret,            \* where the outermost AddNodes call returns to
    aiList,         \* BuildNodes: meshes whose parent is not known
    orphanIdx,      \* BuildNodes: position of the iterator over aiList
    apcRoot,        \* BuildNodes: the local apcNodes
    hRootChildren,  \* history: <root>'s mNumChildren when line 462 reads it
    mAnimations,    \* pcScene->mAnimations[0 .. mNumAnimations-1]
    animIt,         \* BuildAnimations: the iterator i and the counter iNum
    mBuffer,        \* ASEImporter::mBuffer: "null" or "allocated"
    mParser,        \* ASEImporter::mParser: "null", "allocated" or "deleted"
    canRead         \* the path given to CanRead and what it returned

parserVars == <<m_vMeshes, m_vMaterials, hParsed, hMaterials>>
importVars == <<meshIt, avOutMeshes>>
matVars == <<mNumMaterials, mMaterials, pcIntMaterials, matIt, hKeys, hRewrites>>
hierVars == <<nodes, mRootNode, stack, ret, aiList, orphanIdx, apcRoot, hRootChildren>>
animVars == <<mAnimations, animIt>>
resVars == <<mBuffer, mParser, canRead>>
vars == <<pc, parserVars, importVars, sceneMeshes, matVars, hierVars, animVars, resVars>>

NULL == 0

(***************************************************************************)
(* Bounds of the model.                                                     *)
(***************************************************************************)
MaxMeshes == 3
MaxFaces == 2
MaxSubMaterials == 2
NumPositions == 4

\* "", "A", "a", "B"
NameSet == { <<>>, <<65>>, <<97>>, <<66>> }

(***************************************************************************)
(* Strings.                                                                 *)
(***************************************************************************)
\* the character of a NUL-terminated string at 1-based position k
CharAt(s, k) == IF k <= Len(s) THEN s[k] ELSE 0

tolower(c) == IF c >= 65 /\ c <= 90 THEN c + 32 ELSE c

RECURSIVE stricmpFrom(_, _, _)
stricmpFrom(s1, s2, k) ==
    LET c1 == tolower(CharAt(s1, k))
        c2 == tolower(CharAt(s2, k))
    IN  IF c1 # c2 THEN c1 - c2
        ELSE IF c1 = 0 THEN 0
        ELSE stricmpFrom(s1, s2, k + 1)

ASSIMP_stricmp(s1, s2) == stricmpFrom(s1, s2, 1)

(***************************************************************************)
(* Raw meshes and output meshes.                                            *)
(*                                                                          *)
(* An ASE::Mesh is a record: mName, mParent, bSkip, iMaterialIndex,         *)
(* mTransform, mPositions, mNormals, mFaces (each with mIndices and         *)
(* iMaterial), mBones (names) and mBoneVertices (per position the list of   *)
(* <<bone, weight>> pairs).  Vectors are opaque values.  The texture        *)
(* coordinate and vertex colour streams are left out: they are copied by    *)
(* the same loops and no other stream reads them.                           *)
(***************************************************************************)
\* ASE::Face::DEFAULT_MATINDEX is 0xFFFFFFFF, the largest unsigned int.  The
\* model takes the largest integer of the checker: the program compares it
\* for equality and, unsigned, against sizes it always exceeds.
DEFAULT_MATINDEX == 2147483647

\* aiMesh::aiMesh(): no vertices, no faces, every colour channel NULL
NewMesh == [mNumVertices |-> 0, mNumFaces |-> 0, mVertices |-> <<>>,
            mNormals |-> <<>>, mFaces |-> <<>>, mMaterialIndex |-> 0,
            mColors1 |-> NULL, mColors2 |-> NULL, mColors3 |-> NULL,
            mNumBones |-> 0, mBones |-> <<>>]

\* ASE::Material() as the parser fills it: a material "M" that is not
\* needed and has no container, with n submaterials "S"
Material(n) ==
    [mName |-> <<77>>, bNeed |-> FALSE, pcInstance |-> NULL,
     avSubMaterials |->
        [q \in 1 .. n |-> [mName |-> <<83>>, bNeed |-> FALSE,
                           pcInstance |-> NULL, avSubMaterials |-> <<>>]]]

\* "DefaultMaterial"
AI_DEFAULT_MATERIAL_NAME ==
    <<68, 101, 102, 97, 117, 108, 116, 77, 97, 116, 101, 114, 105, 97, 108>>

\* the mutant redirects the skipped meshes too
RedirectedToDefault_Skipped(mesh) ==
    DEFAULT_MATINDEX = mesh.iMaterialIndex

\* lines 202-203: the mesh is redirected to the default material
RedirectedToDefault(mesh) ==
    ~ mesh.bSkip /\ DEFAULT_MATINDEX = mesh.iMaterialIndex

\* lines 193-221
GenerateDefaultMaterial(meshes, mats) ==
    LET bHas == \E k \in 1 .. Len(meshes) : RedirectedToDefault(meshes[k])
    IN  [meshes |-> [k \in 1 .. Len(meshes) |->
                        IF RedirectedToDefault(meshes[k])
                          THEN [meshes[k] EXCEPT !.iMaterialIndex = Len(mats)]
                          ELSE meshes[k]],
         mats |-> IF bHas \/ mats = <<>>
                    THEN Append(mats, [Material(0) EXCEPT
                                          !.mName = AI_DEFAULT_MATERIAL_NAME])
                    ELSE mats]

(***************************************************************************)
(* Transformations are permutation matrices of size Dim, written as the     *)
(* sequence p with M * e[j] = e[p[j]]; a vertex is one of the unit vectors  *)
(* e[1] .. e[Dim], written as its index.                                    *)
(***************************************************************************)
Dim == 3

\* aiMatrix4x4::aiMatrix4x4()
Identity == [j \in 1 .. Dim |-> j]

\* aiMatrix4x4::operator*(const aiMatrix4x4&)
Mul(a, b) == [j \in 1 .. Dim |-> a[b[j]]]

\* aiMatrix4x4::Inverse()
Inverse(a) == [j \in 1 .. Dim |-> CHOOSE q \in 1 .. Dim : a[q] = j]

\* aiMatrix4x4::operator*(const aiVector3D&)
MulVec(a, v) == a[v]

\* a cyclic shift of the axes, and the exchange of the first two
Rotation == [j \in 1 .. Dim |-> (j % Dim) + 1]
Exchange == [j \in 1 .. Dim |-> IF j = 1 THEN 2 ELSE IF j = 2 THEN 1 ELSE j]

RECURSIVE Concat(_)
Concat(ss) == IF ss = <<>> THEN <<>> ELSE Head(ss) \o Concat(Tail(ss))

\* aiMatrix4x4::Transpose: rows and columns are exchanged, so the matrix
\* that takes e[j] to e[p[j]] becomes the one that takes e[p[j]] to e[j]
Transpose(a) == [r \in 1 .. Dim |-> CHOOSE c \in 1 .. Dim : a[c] = r]

\* lines 481-486
TransformVertices(mesh) == [mesh EXCEPT !.mTransform = Transpose(@)]

\* lines 526-533, 549-552: entry iCurrent of an expanded stream is the
\* source entry at mIndices[n] of face iCurrent / 3, n = iCurrent % 3
ExpandStream(src, faces) ==
    [c \in 1 .. 3 * Len(faces) |->
        src[faces[((c - 1) \div 3) + 1].mIndices[((c - 1) % 3) + 1] + 1]]

\* lines 519-523, 554-561: the local mBoneVertices, default-constructed
\* where the position index has no bone vertex
ExpandedBoneVertices(mesh) ==
    IF mesh.mBoneVertices = <<>> THEN <<>>
    ELSE [c \in 1 .. 3 * Len(mesh.mFaces) |->
            LET idx == mesh.mFaces[((c - 1) \div 3) + 1].mIndices[((c - 1) % 3) + 1]
            IN  IF idx < Len(mesh.mBoneVertices)
                  THEN mesh.mBoneVertices[idx + 1] ELSE <<>>]

\* the mutant keeps the order of the corners
FlippedIndices_NoFlip(iCurrent) == <<iCurrent - 3, iCurrent - 2, iCurrent - 1>>

\* lines 563-566, iCurrent being the flat index after the face's corners
FlippedIndices(iCurrent) == <<iCurrent - 1, iCurrent - 2, iCurrent - 3>>

\* lines 488-590.  Lines 569-575 replace the normals, the positions (and
\* the colours and texture coordinates): the expanded bone vertices are
\* not stored.
BuildUniqueRepresentation(mesh) ==
    [mesh EXCEPT
        !.mNormals = IF mesh.mNormals # <<>>
                       THEN ExpandStream(mesh.mNormals, mesh.mFaces) ELSE <<>>,
        !.mPositions = ExpandStream(mesh.mPositions, mesh.mFaces),
        !.mFaces = [f \in 1 .. Len(mesh.mFaces) |->
                       [mesh.mFaces[f] EXCEPT !.mIndices = FlippedIndices(3 * f)]]]

\* the value of a normal that GenerateNormals computes (its arithmetic and
\* the spatial sorter are not modelled)
GeneratedNormal == "generated"

\* the mutant generates nothing
GenerateNormals_Nothing(mesh) == mesh

\* lines 1176-1254: only a mesh without normals gets them, one for each
\* position
GenerateNormals(mesh) ==
    IF mesh.mNormals = <<>>
      THEN [mesh EXCEPT !.mNormals =
               [c \in 1 .. Len(mesh.mPositions) |-> GeneratedNormal]]
      ELSE mesh

\* lines 744-748
ClampedMaterialIndex(mesh, mats) ==
    IF mesh.iMaterialIndex >= Len(mats) THEN Len(mats) - 1
                                        ELSE mesh.iMaterialIndex

\* the mutant drops a face whose submaterial id is out of range
Bucket_DropOutOfRange(face, nSub) ==
    IF face.iMaterial >= nSub THEN nSub ELSE face.iMaterial

\* lines 766-773: the bucket of a face, the last one for an id out of range
Bucket(face, nSub) ==
    IF face.iMaterial >= nSub THEN nSub - 1 ELSE face.iMaterial

\* lines 761-774: aiSplit[p], the faces (0-based) of submaterial p
aiSplit(mesh, nSub, p) ==
    SelectSeq([i \in 1 .. Len(mesh.mFaces) |-> i - 1],
              LAMBDA i : Bucket(mesh.mFaces[i + 1], nSub) = p)

\* lines 835-845 and 1012-1020: the weights of one bone vertex, each for
\* output vertex vertexId
WeightsOf(boneVertex, vertexId) ==
    [w \in 1 .. Len(boneVertex) |->
        [bone |-> boneVertex[w][1],
         weight |-> [mVertexId |-> vertexId, mWeight |-> boneVertex[w][2]]]]

\* lines 888-919 and 1023-1042: the bones that received a weight, in bone
\* order, each with its weights in the order they were pushed
BonesOut(mesh, pushed) ==
    LET of(b) == SelectSeq(pushed, LAMBDA e : e.bone = b)
        used  == SelectSeq([b \in 1 .. Len(mesh.mBones) |-> b - 1],
                           LAMBDA b : of(b) # <<>>)
    IN  [j \in 1 .. Len(used) |->
            [mName |-> mesh.mBones[used[j] + 1],
             mNumWeights |-> Len(of(used[j])),
             mWeights |-> [w \in 1 .. Len(of(used[j])) |-> of(used[j])[w].weight]]]

\* the mutant keeps the descending indices of the raw faces
SplitFaceIndices_Descending(iBase) == <<iBase - 1, iBase - 2, iBase - 3>>

\* lines 849-851, iBase being the output index after the face's corners
SplitFaceIndices(iBase) == <<iBase - 3, iBase - 2, iBase - 1>>

\* lines 781-919: the output mesh of submaterial p, split = aiSplit[p];
\* k is the raw mesh, iMat its material index
SubMesh(mesh, k, iMat, p, split) ==
    LET nVert == Len(split) * 3
        \* line 825, for output vertex iBase
        iIndex2(iBase) ==
            mesh.mFaces[split[(iBase \div 3) + 1] + 1].mIndices[(iBase % 3) + 1]
        pushed == Concat([b \in 1 .. nVert |->
                     IF iIndex2(b - 1) < Len(mesh.mBoneVertices)
                       THEN WeightsOf(mesh.mBoneVertices[iIndex2(b - 1) + 1], b - 1)
                       ELSE <<>>])
        bones == IF mesh.mBones # <<>> THEN BonesOut(mesh, pushed) ELSE <<>>
    IN  [NewMesh EXCEPT
            !.mMaterialIndex = p,
            !.mColors3 = iMat,
            !.mColors2 = k,
            !.mNumVertices = nVert,
            !.mNumFaces = Len(split),
            !.mVertices = [b \in 1 .. nVert |-> mesh.mPositions[iIndex2(b - 1) + 1]],
            !.mNormals = [b \in 1 .. nVert |-> mesh.mNormals[iIndex2(b - 1) + 1]],
            !.mFaces = [q \in 1 .. Len(split) |-> SplitFaceIndices(3 * q)],
            !.mNumBones = Len(bones),
            !.mBones = bones]

\* lines 927-1043: the one output mesh of a raw mesh whose material has no
\* submaterials
CopyMesh(mesh, k, iMat) ==
    LET head == [NewMesh EXCEPT !.mMaterialIndex = DEFAULT_MATINDEX,
                                !.mColors3 = iMat,
                                !.mColors2 = k]
        pushed == Concat([v \in 1 .. Len(mesh.mBoneVertices) |->
                     WeightsOf(mesh.mBoneVertices[v], v - 1)])
        bones == IF mesh.mBones # <<>> /\ mesh.mBoneVertices # <<>>
                   THEN BonesOut(mesh, pushed) ELSE <<>>
    IN  IF mesh.mFaces = <<>> \/ mesh.mPositions = <<>>
          THEN head
          ELSE [head EXCEPT
                  !.mNumVertices = Len(mesh.mPositions),
                  !.mNumFaces = Len(mesh.mFaces),
                  !.mVertices = mesh.mPositions,
                  !.mNormals = mesh.mNormals,
                  !.mFaces = [f \in 1 .. Len(mesh.mFaces) |-> mesh.mFaces[f].mIndices],
                  !.mNumBones = Len(bones),
                  !.mBones = bones]

\* lines 741-1046, for raw mesh k (1-based): the raw mesh with its material
\* index validated, the materials with the needed ones marked, and the
\* output meshes pushed to avOutMeshes
ConvertMeshes(mesh, k, mats) ==
    LET iMat == ClampedMaterialIndex(mesh, mats)
        m2   == [mesh EXCEPT !.iMaterialIndex = iMat]
        subs == mats[iMat + 1].avSubMaterials
        nSub == Len(subs)
        used == SelectSeq([p \in 1 .. nSub |-> p - 1],
                          LAMBDA p : aiSplit(m2, nSub, p) # <<>>)
    IN  IF subs # <<>>
          THEN [mesh |-> m2,
                mats |-> [mats EXCEPT ![iMat + 1].avSubMaterials =
                            [p \in 1 .. nSub |->
                                IF aiSplit(m2, nSub, p - 1) # <<>>
                                  THEN [subs[p] EXCEPT !.bNeed = TRUE]
                                  ELSE subs[p]]],
                out  |-> [j \in 1 .. Len(used) |->
                            SubMesh(m2, k, iMat, used[j], aiSplit(m2, nSub, used[j]))]]
          ELSE [mesh |-> m2,
                mats |-> [mats EXCEPT ![iMat + 1].bNeed = TRUE],
                out  |-> <<CopyMesh(m2, k, iMat)>>]

(***************************************************************************)
(* The loop of InternReadFile over the raw meshes (lines 141-164), one      *)
(* stage at a time.                                                         *)
(***************************************************************************)
CurMesh == m_vMeshes[meshIt + 1]

\* line 148
MeshLoop_Skip ==
    /\ pc = "MeshLoop"
    /\ meshIt < Len(m_vMeshes)
    /\ CurMesh.bSkip
    /\ meshIt' = meshIt + 1
    /\ UNCHANGED <<pc, parserVars, avOutMeshes, sceneMeshes, matVars, animVars, resVars, hierVars>>

\* line 153
MeshLoop_TransformVertices ==
    /\ pc = "MeshLoop"
    /\ meshIt < Len(m_vMeshes)
    /\ ~ CurMesh.bSkip
    /\ m_vMeshes' = [m_vMeshes EXCEPT ![meshIt + 1] = TransformVertices(@)]
    /\ pc' = "BuildUniqueRepresentation"
    /\ UNCHANGED <<m_vMaterials, hParsed, hMaterials, importVars, sceneMeshes, matVars, animVars, resVars,
                   hierVars>>

\* line 157
MeshLoop_BuildUniqueRepresentation ==
    /\ pc = "BuildUniqueRepresentation"
    /\ m_vMeshes' = [m_vMeshes EXCEPT ![meshIt + 1] = BuildUniqueRepresentation(@)]
    /\ pc' = "GenerateNormals"
    /\ UNCHANGED <<m_vMaterials, hParsed, hMaterials, importVars, sceneMeshes, matVars, animVars, resVars,
                   hierVars>>

\* line 160
MeshLoop_GenerateNormals ==
    /\ pc = "GenerateNormals"
    /\ m_vMeshes' = [m_vMeshes EXCEPT ![meshIt + 1] = GenerateNormals(@)]
    /\ pc' = "ConvertMeshes"
    /\ UNCHANGED <<m_vMaterials, hParsed, hMaterials, importVars, sceneMeshes, matVars, animVars, resVars,
                   hierVars>>

\* line 163, and the step of the loop
MeshLoop_ConvertMeshes ==
    /\ pc = "ConvertMeshes"
    /\ LET r == ConvertMeshes(CurMesh, meshIt + 1, m_vMaterials)
       IN  /\ m_vMeshes' = [m_vMeshes EXCEPT ![meshIt + 1] = r.mesh]
           /\ m_vMaterials' = r.mats
           /\ avOutMeshes' = avOutMeshes \o r.out
    /\ meshIt' = meshIt + 1
    /\ pc' = "MeshLoop"
    /\ UNCHANGED <<hParsed, hMaterials, sceneMeshes, matVars, animVars, resVars, hierVars>>

\* line 139
Import_GenerateDefaultMaterial ==
    /\ pc = "GenerateDefaultMaterial"
    /\ LET r == GenerateDefaultMaterial(m_vMeshes, m_vMaterials)
       IN  /\ m_vMeshes' = r.meshes
           /\ m_vMaterials' = r.mats
    /\ pc' = "MeshLoop"
    /\ UNCHANGED <<hParsed, hMaterials, importVars, sceneMeshes, matVars, animVars, resVars, hierVars>>

\* lines 148-163 for one mesh that is not skipped, the four stages in one
\* step
MeshLoop_Body ==
    /\ pc = "MeshLoop"
    /\ meshIt < Len(m_vMeshes)
    /\ ~ CurMesh.bSkip
    /\ LET expanded == GenerateNormals(BuildUniqueRepresentation(
                           TransformVertices(CurMesh)))
           r == ConvertMeshes(expanded, meshIt + 1, m_vMaterials)
       IN  /\ m_vMeshes' = [m_vMeshes EXCEPT ![meshIt + 1] = r.mesh]
           /\ m_vMaterials' = r.mats
           /\ avOutMeshes' = avOutMeshes \o r.out
    /\ meshIt' = meshIt + 1
    /\ UNCHANGED <<pc, hParsed, hMaterials, sceneMeshes, matVars, animVars, resVars, hierVars>>

\* lines 166-176: the output meshes with faces
SurvivingMeshes(out) == SelectSeq(out, LAMBDA m : m.mNumFaces # 0)

\* the (top-level material id, submaterial id) a scene mesh carries
KeyOf(m) == <<m.mColors3, m.mMaterialIndex>>

\* lines 166-176, at the end of the mesh loop
Import_BuildMeshList ==
    /\ pc = "MeshLoop"
    /\ meshIt = Len(m_vMeshes)
    /\ sceneMeshes' = SurvivingMeshes(avOutMeshes)
    /\ hKeys' = [k \in 1 .. Len(sceneMeshes') |-> KeyOf(sceneMeshes'[k])]
    /\ hRewrites' = [k \in 1 .. Len(sceneMeshes') |-> 0]
    /\ pc' = "BuildMaterialIndices"
    /\ UNCHANGED <<parserVars, importVars, animVars, resVars, mNumMaterials, mMaterials,
                   pcIntMaterials, matIt, hierVars>>

(***************************************************************************)
(* Material flattener: BuildMaterialIndices.  A material container          *)
(* (pcInstance) is the number of its allocation; the properties that        *)
(* ConvertMaterial stores in it are not modelled.                           *)
(***************************************************************************)
\* the materials and submaterials in the order of the two loops of
\* BuildMaterialIndices, each as <<iMat, iSubMat>>, iSubMat = -1 for the
\* material itself
RECURSIVE PreOrderFrom(_, _)
PreOrderFrom(mats, iMat) ==
    IF iMat >= Len(mats) THEN <<>>
    ELSE << <<iMat, -1>> >>
         \o [q \in 1 .. Len(mats[iMat + 1].avSubMaterials) |-> <<iMat, q - 1>>]
         \o PreOrderFrom(mats, iMat + 1)

\* the mutant walks the materials from the last entry to the first
PreOrder_Backwards(mats) ==
    LET order == PreOrderFrom(mats, 0)
    IN  [j \in 1 .. Len(order) |-> order[Len(order) + 1 - j]]

PreOrder(mats) == PreOrderFrom(mats, 0)

MaterialAt(mats, e) ==
    IF e[2] = -1 THEN mats[e[1] + 1]
                 ELSE mats[e[1] + 1].avSubMaterials[e[2] + 1]

\* the needed entries among the first n of the order
NeededBefore(mats, n) ==
    Len(SelectSeq(SubSeq(PreOrder(mats), 1, n),
                  LAMBDA e : MaterialAt(mats, e).bNeed))

\* lines 592-739, the n-th container allocated
ConvertMaterial(mat, n) == [mat EXCEPT !.pcInstance = n]

\* lines 1074-1092: every needed material is converted
ConvertNeeded(mats) ==
    LET order == PreOrder(mats)
        pos(e) == CHOOSE j \in 1 .. Len(order) : order[j] = e
        conv(mat, e) == IF mat.bNeed
                          THEN ConvertMaterial(mat, NeededBefore(mats, pos(e)))
                          ELSE mat
    IN  [i \in 1 .. Len(mats) |->
            [conv(mats[i], <<i - 1, -1>>) EXCEPT !.avSubMaterials =
                [q \in 1 .. Len(mats[i].avSubMaterials) |->
                    conv(mats[i].avSubMaterials[q], <<i - 1, q - 1>>)]]]

\* lines 1074-1098
BuildMaterialIndices_Convert ==
    /\ pc = "BuildMaterialIndices"
    /\ m_vMaterials' = ConvertNeeded(m_vMaterials)
    /\ mNumMaterials' = mNumMaterials
                        + NeededBefore(m_vMaterials, Len(PreOrder(m_vMaterials)))
    /\ mMaterials' = [j \in 1 .. mNumMaterials' |-> NULL]
    /\ pcIntMaterials' = [j \in 1 .. mNumMaterials' |-> NULL]
    /\ matIt' = [pos |-> 1, iNum |-> 0]
    /\ pc' = "AssignMaterials"
    /\ UNCHANGED <<m_vMeshes, hParsed, hMaterials, importVars, animVars, resVars, sceneMeshes, hKeys,
                   hRewrites, hierVars>>

\* the mutant matches on the submaterial id alone
UsesMaterial_AnyParent(m, iMat, iSubMat) ==
    (IF iSubMat = -1 THEN DEFAULT_MATINDEX ELSE iSubMat) = m.mMaterialIndex

\* lines 1113-1114 and 1137-1138: the test of the loop over the meshes
UsesMaterial(m, iMat, iSubMat) ==
    /\ (IF iSubMat = -1 THEN DEFAULT_MATINDEX ELSE iSubMat) = m.mMaterialIndex
    /\ iMat = m.mColors3

\* the mutant leaves the top-level material id on the mesh
RewriteMeshes_KeepMaterialId(meshes, iMat, iSubMat, iNum) ==
    [k \in 1 .. Len(meshes) |->
        IF UsesMaterial(meshes[k], iMat, iSubMat)
          THEN [meshes[k] EXCEPT !.mMaterialIndex = iNum]
          ELSE meshes[k]]

\* lines 1111-1119 and 1135-1143
RewriteMeshes(meshes, iMat, iSubMat, iNum) ==
    [k \in 1 .. Len(meshes) |->
        IF UsesMaterial(meshes[k], iMat, iSubMat)
          THEN [meshes[k] EXCEPT !.mMaterialIndex = iNum, !.mColors3 = NULL]
          ELSE meshes[k]]

\* lines 1099-1147, one iteration: the material iMat itself (lines
\* 1101-1121) or its submaterial iSubMat (lines 1124-1145)
BuildMaterialIndices_Assign ==
    /\ pc = "AssignMaterials"
    /\ matIt.pos <= Len(PreOrder(m_vMaterials))
    /\ LET e    == PreOrder(m_vMaterials)[matIt.pos]
           mat  == MaterialAt(m_vMaterials, e)
           iNum == matIt.iNum
       IN  IF mat.bNeed
             THEN /\ mMaterials' = [mMaterials EXCEPT ![iNum + 1] = mat.pcInstance]
                  /\ pcIntMaterials' = [pcIntMaterials EXCEPT ![iNum + 1] = e]
                  /\ sceneMeshes' = RewriteMeshes(sceneMeshes, e[1], e[2], iNum)
                  /\ hRewrites' = [k \in 1 .. Len(sceneMeshes) |->
                                      IF UsesMaterial(sceneMeshes[k], e[1], e[2])
                                        THEN hRewrites[k] + 1 ELSE hRewrites[k]]
                  /\ matIt' = [pos |-> matIt.pos + 1, iNum |-> iNum + 1]
             ELSE /\ matIt' = [matIt EXCEPT !.pos = @ + 1]
                  /\ UNCHANGED <<mMaterials, pcIntMaterials, sceneMeshes, hRewrites>>
    /\ UNCHANGED <<pc, parserVars, importVars, animVars, resVars, mNumMaterials, hKeys, hierVars>>

\* lines 1148-1172: the texture transform collaborator is applied to every
\* material and, with pcIntMaterials[mMaterialIndex], to every mesh; a
\* material index outside pcIntMaterials reads past the array
BuildMaterialIndices_Finish ==
    /\ pc = "AssignMaterials"
    /\ matIt.pos > Len(PreOrder(m_vMaterials))
    /\ pc' = IF \A k \in 1 .. Len(sceneMeshes) :
                    sceneMeshes[k].mMaterialIndex < mNumMaterials
               THEN "BuildNodes" ELSE "OutOfBounds"
    /\ UNCHANGED <<parserVars, importVars, sceneMeshes, matVars, animVars, resVars, hierVars>>

(***************************************************************************)
(* Hierarchy builder: AddNodes and BuildNodes.                              *)
(***************************************************************************)
NumMeshes == Len(sceneMeshes)

\* the ASE::Mesh behind pcMesh->mColors[2]
RawOf(pcMesh) == m_vMeshes[pcMesh.mColors2]

\* aiNode::aiNode()
NewNode == [mName |-> <<>>, mParent |-> NULL, mChildren |-> <<>>,
            mNumChildren |-> 0, mNumMeshes |-> 0, mMeshes |-> <<>>,
            mTransformation |-> Identity, freed |-> FALSE]

\* one activation of AddNodes(pcParent, szName, decompTrafo): named is
\* szName # NULL, mMatrix is decompTrafo.mMatrix
Frame(pcParent, named, szName, mMatrix) ==
    [pcParent |-> pcParent, named |-> named, szName |-> szName,
     mMatrix |-> mMatrix, i |-> 0, apcNodes |-> <<>>]

\* the mutant compares the names exactly
AddNodesMatches_CaseSensitive(named, szName, mesh) ==
    IF named
        THEN ~ (Len(szName) # Len(mesh.mParent) \/ szName # mesh.mParent)
        ELSE CharAt(mesh.mParent, 1) = 0

\* the test of the loop body: FALSE where the code says continue
AddNodesMatches(named, szName, mesh) ==
    IF named
        THEN ~ (Len(szName) # Len(mesh.mParent)
                \/ 0 # ASSIMP_stricmp(szName, mesh.mParent))
        ELSE CharAt(mesh.mParent, 1) = 0

Top == stack[Len(stack)]

SetTop(f) == [stack EXCEPT ![Len(stack)] = f]

\* loop body, mesh i is not a child of pcParent: continue
AddNodes_Skip ==
    /\ pc = "AddNodes"
    /\ Top.i < NumMeshes
    /\ ~ AddNodesMatches(Top.named, Top.szName, RawOf(sceneMeshes[Top.i + 1]))
    /\ stack' = SetTop([Top EXCEPT !.i = @ + 1])
    /\ UNCHANGED <<pc, parserVars, importVars, sceneMeshes, matVars, animVars, resVars, nodes, mRootNode,
                   ret, aiList, orphanIdx, apcRoot, hRootChildren>>

\* lines 325-339: the node the loop body creates for mesh i under pcParent
MeshNode(i, pcParent, mMatrix) ==
    [NewNode EXCEPT !.mName = RawOf(sceneMeshes[i + 1]).mName,
                    !.mNumMeshes = 1,
                    !.mMeshes = <<i>>,
                    !.mParent = pcParent,
                    !.mTransformation =
                        Mul(Inverse(mMatrix), RawOf(sceneMeshes[i + 1]).mTransform)]

\* lines 344-353: the vertices of the mesh are multiplied by the inverse of
\* the transformation of the raw mesh
ToLocalSpace(pcMesh, mTransform) ==
    [pcMesh EXCEPT !.mVertices =
        [v \in 1 .. Len(pcMesh.mVertices) |->
            MulVec(Inverse(mTransform), pcMesh.mVertices[v])]]

\* loop body, mesh i is a child of pcParent: a node is created and AddNodes
\* recurses with the node's name.  A recursion deeper than the number of
\* meshes has some mesh twice on its path and never ends: the program
\* exhausts its stack.
AddNodes_Match ==
    /\ pc = "AddNodes"
    /\ Top.i < NumMeshes
    /\ AddNodesMatches(Top.named, Top.szName, RawOf(sceneMeshes[Top.i + 1]))
    /\ LET node == Len(nodes) + 1
           rec  == MeshNode(Top.i, Top.pcParent, Top.mMatrix)
       IN  IF Len(stack) > NumMeshes
             THEN /\ pc' = "StackOverflow"
                  /\ UNCHANGED <<nodes, stack, sceneMeshes>>
             ELSE /\ nodes' = Append(nodes, rec)
                  /\ sceneMeshes' = [sceneMeshes EXCEPT ![Top.i + 1] =
                        ToLocalSpace(@, RawOf(sceneMeshes[Top.i + 1]).mTransform)]
                  \* lines 358-360
                  /\ stack' = Append(SetTop([Top EXCEPT !.apcNodes = Append(@, node)]),
                                     Frame(node, TRUE, rec.mName,
                                           Mul(Top.mMatrix, rec.mTransformation)))
                  /\ pc' = pc
    /\ UNCHANGED <<parserVars, importVars, matVars, animVars, resVars, mRootNode, ret, aiList,
                   orphanIdx, apcRoot, hRootChildren>>

\* lines 363-372: the children of pcParent are the nodes collected
SetChildren(ns, pcParent, apcNodes) ==
    [ns EXCEPT ![pcParent].mNumChildren = Len(apcNodes),
               ![pcParent].mChildren = apcNodes]

\* end of the loop: the children are stored and the call returns, to the
\* loop of the calling activation, or to BuildNodes
AddNodes_Return ==
    /\ pc = "AddNodes"
    /\ Top.i = NumMeshes
    /\ nodes' = SetChildren(nodes, Top.pcParent, Top.apcNodes)
    /\ IF Len(stack) > 1
         THEN /\ stack' = [k \in 1 .. Len(stack) - 1 |->
                              IF k = Len(stack) - 1
                                THEN [stack[k] EXCEPT !.i = @ + 1]
                                ELSE stack[k]]
              /\ UNCHANGED <<pc, apcRoot, orphanIdx>>
         ELSE /\ stack' = <<>>
              /\ IF ret = "root"
                   THEN /\ pc' = "FindOrphans"
                        /\ UNCHANGED <<apcRoot, orphanIdx>>
                   ELSE \* line 449, after the call of line 448
                        /\ pc' = "Orphans"
                        /\ apcRoot' = Append(apcRoot, Top.pcParent)
                        /\ orphanIdx' = orphanIdx + 1
    /\ UNCHANGED <<parserVars, importVars, sceneMeshes, matVars, animVars, resVars, mRootNode, ret, aiList,
                   hRootChildren>>

\* lines 377-386
BuildNodes_Begin ==
    /\ pc = "BuildNodes"
    /\ nodes' = <<[NewNode EXCEPT !.mName = <<60, 114, 111, 111, 116, 62>>]>>
    /\ mRootNode' = 1
    /\ stack' = <<Frame(1, FALSE, <<>>, Identity)>>
    /\ ret' = "root"
    /\ pc' = "AddNodes"
    /\ UNCHANGED <<parserVars, importVars, sceneMeshes, matVars, animVars, resVars, aiList, orphanIdx, apcRoot,
                   hRootChildren>>

\* lines 404-421, for mesh i: is there another mesh i2 that passes the test
bKnowParent(i) ==
    \E i2 \in 0 .. NumMeshes - 1 :
        /\ i2 # i
        /\ Len(RawOf(sceneMeshes[i + 1]).mName) = Len(RawOf(sceneMeshes[i2 + 1]).mParent)
        /\ 0 = ASSIMP_stricmp(RawOf(sceneMeshes[i + 1]).mParent,
                              RawOf(sceneMeshes[i2 + 1]).mName)

\* lines 390-426: the meshes without a known parent, in mesh order
OrphanList ==
    SelectSeq([k \in 1 .. NumMeshes |-> k - 1], LAMBDA i : ~ bKnowParent(i))

\* lines 388-435
BuildNodes_FindOrphans ==
    /\ pc = "FindOrphans"
    /\ aiList' = OrphanList
    /\ IF OrphanList # <<>>
         THEN /\ apcRoot' = nodes[mRootNode].mChildren
              /\ orphanIdx' = 1
              /\ pc' = "Orphans"
         ELSE /\ pc' = "Finish"
              /\ UNCHANGED <<apcRoot, orphanIdx>>
    /\ UNCHANGED <<parserVars, importVars, sceneMeshes, matVars, animVars, resVars, nodes, mRootNode, stack,
                   ret, hRootChildren>>

\* lines 436-450, one iteration: mColors[1] is read as a pointer to the
\* two strings (name, parent) of the mesh
BuildNodes_OrphanStep ==
    /\ pc = "Orphans"
    /\ orphanIdx <= Len(aiList)
    /\ LET szMyName == sceneMeshes[aiList[orphanIdx] + 1].mColors1
           pcNode   == Len(nodes) + 1
       IN  IF szMyName = NULL
             THEN /\ orphanIdx' = orphanIdx + 1
                  /\ UNCHANGED <<pc, nodes, stack, ret>>
             ELSE /\ nodes' = Append(nodes, [NewNode EXCEPT !.mParent = mRootNode,
                                                            !.mName = szMyName[2]])
                  /\ stack' = <<Frame(pcNode, TRUE, szMyName[2], Identity)>>
                  /\ ret' = "orphan"
                  /\ pc' = "AddNodes"
                  /\ UNCHANGED orphanIdx
    /\ UNCHANGED <<parserVars, importVars, sceneMeshes, matVars, animVars, resVars, mRootNode, aiList, apcRoot,
                   hRootChildren>>

\* lines 451-455
BuildNodes_OrphansEnd ==
    /\ pc = "Orphans"
    /\ orphanIdx > Len(aiList)
    /\ nodes' = SetChildren(nodes, mRootNode, apcRoot)
    /\ pc' = "Finish"
    /\ UNCHANGED <<parserVars, importVars, sceneMeshes, matVars, animVars, resVars, mRootNode, stack, ret,
                   aiList, orphanIdx, apcRoot, hRootChildren>>

\* the mutant forgets to clear the parent of the new root
CollapseRoot_KeepParent(ns, root) ==
    LET child == ns[root].mChildren[1]
    IN  [ns EXCEPT ![root].mChildren = <<>>,
                   ![root].mNumChildren = 0,
                   ![root].freed = TRUE]

\* lines 464-472: the only child takes the place of <root>, which is deleted
CollapseRoot(ns, root) ==
    LET child == ns[root].mChildren[1]
    IN  [ns EXCEPT ![child].mParent = NULL,
                   ![root].mChildren = <<>>,
                   ![root].mNumChildren = 0,
                   ![root].freed = TRUE]

\* lines 458-478
BuildNodes_Finish ==
    /\ pc = "Finish"
    /\ sceneMeshes' = [k \in 1 .. NumMeshes |-> [sceneMeshes[k] EXCEPT !.mColors2 = NULL]]
    /\ hRootChildren' = nodes[mRootNode].mNumChildren
    /\ IF 1 = nodes[mRootNode].mNumChildren
         THEN /\ mRootNode' = nodes[mRootNode].mChildren[1]
              /\ nodes' = CollapseRoot(nodes, mRootNode)
              /\ pc' = "BuildNodesDone"
         ELSE IF 0 = nodes[mRootNode].mNumChildren
           THEN /\ pc' = "EmptyScene"
                /\ UNCHANGED <<nodes, mRootNode>>
           ELSE /\ pc' = "BuildNodesDone"
                /\ UNCHANGED <<nodes, mRootNode>>
    /\ UNCHANGED <<parserVars, importVars, matVars, animVars, resVars, stack, ret, aiList, orphanIdx,
                   apcRoot>>

(***************************************************************************)
(* The hierarchy build on every list of surviving output meshes.  Output    *)
(* mesh k stems from raw mesh k; output meshes that a split produced from   *)
(* one raw mesh read the same name and parent, as raw meshes sharing both   *)
(* do.                                                                      *)
(***************************************************************************)
\* the state of the hierarchy builder before BuildNodes
HierInit ==
    /\ nodes = <<>>
    /\ mRootNode = NULL
    /\ stack = <<>>
    /\ ret = "root"
    /\ aiList = <<>>
    /\ orphanIdx = 0
    /\ apcRoot = <<>>
    /\ hRootChildren = -1

\* BuildMaterialIndices has not run
MatInit ==
    /\ mAnimations = <<>>
    /\ animIt = [i |-> 0, iNum |-> 0]
    /\ mBuffer = "allocated"
    /\ mParser = "allocated"
    /\ canRead = <<>>
    /\ hMaterials = m_vMaterials
    /\ mNumMaterials = 0
    /\ mMaterials = <<>>
    /\ pcIntMaterials = <<>>
    /\ matIt = [pos |-> 1, iNum |-> 0]
    /\ hKeys = <<>>
    /\ hRewrites = <<>>

RawNames == [mName : NameSet, mParent : NameSet, mTransform : {Identity}]

\* the vertices of an output mesh of one face, in world space
WorldVertices == [v \in 1 .. Dim |-> v]

\* what ConvertMeshes leaves in the transient colour channels of mesh k,
\* and the vertices of the mesh
SceneRef(k) == [mColors1 |-> NULL, mColors2 |-> k, mVertices |-> WorldVertices]

InitNodes ==
    /\ pc = "BuildNodes"
    /\ \E n \in 0 .. MaxMeshes :
          /\ m_vMeshes \in [1 .. n -> RawNames]
          /\ sceneMeshes = [k \in 1 .. n |-> SceneRef(k)]
    /\ m_vMaterials = <<>>
    /\ hParsed = m_vMeshes
    /\ meshIt = Len(m_vMeshes)
    /\ avOutMeshes = sceneMeshes
    /\ MatInit
    /\ HierInit

NextNodes ==
    \/ BuildNodes_Begin
    \/ AddNodes_Skip
    \/ AddNodes_Match
    \/ AddNodes_Return
    \/ BuildNodes_FindOrphans
    \/ BuildNodes_OrphanStep
    \/ BuildNodes_OrphansEnd
    \/ BuildNodes_Finish

SpecNodes == InitNodes /\ [][NextNodes]_vars

\* the import runs on one thread and nothing suspends it: whenever a step
\* of the hierarchy build is possible, the program takes it
SpecNodesFair == SpecNodes /\ WF_vars(NextNodes)

(***************************************************************************)
(* The hierarchy build with transformations: meshes named "A" or "B",       *)
(* without parent or below "A", each with the identity, a cyclic shift or   *)
(* an exchange of two axes as its transformation.                           *)
(***************************************************************************)
LocalMeshes ==
    [mName : {<<65>>, <<66>>}, mParent : {<<>>, <<65>>},
     mTransform : {Identity, Rotation, Exchange}]

InitLocal ==
    /\ pc = "BuildNodes"
    /\ \E n \in 0 .. MaxMeshes :
          /\ m_vMeshes \in [1 .. n -> LocalMeshes]
          /\ sceneMeshes = [k \in 1 .. n |-> SceneRef(k)]
    /\ m_vMaterials = <<>>
    /\ hParsed = m_vMeshes
    /\ meshIt = Len(m_vMeshes)
    /\ avOutMeshes = sceneMeshes
    /\ MatInit
    /\ HierInit

SpecLocal == InitLocal /\ [][NextNodes]_vars

(***************************************************************************)
(* The stages of the mesh loop on one raw mesh: every list of up to         *)
(* MaxFaces faces over NumPositions source positions, with or without       *)
(* source normals and bone vertices, on a material without or with          *)
(* submaterials.  The state is the one GenerateDefaultMaterial leaves: the  *)
(* material list is not empty.                                              *)
(***************************************************************************)
Position(j) == <<"position", j>>
Normal(j) == <<"normal", j>>

\* position indices of a face, as parsed
IndexTriples == { <<0, 1, 2>>, <<2, 1, 0>>, <<0, 0, 1>>, <<1, 3, 2>> }

ParsedFaces == [mIndices : IndexTriples, iMaterial : 0 .. MaxSubMaterials]

\* no skeleton, or two bones and one weight on every position
BoneSetups ==
    { [mBones |-> <<>>, mBoneVertices |-> <<>>],
      [mBones |-> << <<98, 48>>, <<98, 49>> >>,
       mBoneVertices |-> [j \in 1 .. NumPositions |-> << <<j % 2, 1>> >>]] }

ParsedMesh(name, parent, skip, iMat, faces, normals, bones) ==
    [mName |-> name, mParent |-> parent, bSkip |-> skip,
     iMaterialIndex |-> iMat,
     mTransform |-> Rotation,
     mPositions |-> [j \in 1 .. NumPositions |-> Position(j)],
     mNormals |-> normals,
     mFaces |-> faces,
     mBones |-> bones.mBones,
     mBoneVertices |-> bones.mBoneVertices]

InitMesh ==
    /\ pc = "MeshLoop"
    /\ \E n \in 0 .. MaxFaces, nSub \in 0 .. MaxSubMaterials,
          iMat \in {0, 1}, bones \in BoneSetups,
          normals \in { <<>>, [j \in 1 .. NumPositions |-> Normal(j)] } :
          /\ m_vMaterials = <<Material(nSub)>>
          /\ \E faces \in [1 .. n -> ParsedFaces] :
                m_vMeshes = <<ParsedMesh(<<65>>, <<>>, FALSE, iMat, faces,
                                         normals, bones)>>
    /\ hParsed = m_vMeshes
    /\ meshIt = 0
    /\ avOutMeshes = <<>>
    /\ sceneMeshes = <<>>
    /\ MatInit
    /\ HierInit

NextMesh ==
    \/ MeshLoop_TransformVertices
    \/ MeshLoop_BuildUniqueRepresentation
    \/ MeshLoop_GenerateNormals
    \/ MeshLoop_ConvertMeshes

SpecMesh == InitMesh /\ [][NextMesh]_vars

(***************************************************************************)
(* The import from GenerateDefaultMaterial to the end of                    *)
(* BuildMaterialIndices: up to MaxMaterials parsed materials, each without  *)
(* or with MaxSubMaterials submaterials, and up to MaxMatMeshes raw meshes  *)
(* of one triangle per face.                                                *)
(***************************************************************************)
MaxMaterials == 2
MaxMatMeshes == 2

\* the submaterial ids of the faces of a raw mesh
FaceMaterialLists == { <<>>, <<0>>, <<1>>, <<0, 1>> }

FacesOn(ids) == [f \in 1 .. Len(ids) |-> [mIndices |-> <<0, 1, 2>>, iMaterial |-> ids[f]]]

\* the raw meshes: a skipped one of one face, or one that is converted
MatMeshes ==
    { ParsedMesh(<<65>>, <<>>, TRUE, iMat, FacesOn(<<0>>), <<>>, CHOOSE b \in BoneSetups : b.mBones = <<>>) :
        iMat \in {0, MaxMaterials - 1, DEFAULT_MATINDEX} }
    \cup
    { ParsedMesh(<<65>>, <<>>, FALSE, x[1], FacesOn(x[2]), <<>>, CHOOSE b \in BoneSetups : b.mBones = <<>>) :
        x \in {0, MaxMaterials - 1, DEFAULT_MATINDEX} \X FaceMaterialLists }

InitMaterials ==
    /\ pc = "GenerateDefaultMaterial"
    /\ \E n \in 0 .. MaxMatMeshes : m_vMeshes \in [1 .. n -> MatMeshes]
    /\ \E n \in 0 .. MaxMaterials :
          \E subs \in [1 .. n -> {0, MaxSubMaterials}] :
             m_vMaterials = [i \in 1 .. n |-> Material(subs[i])]
    /\ hParsed = m_vMeshes
    /\ meshIt = 0
    /\ avOutMeshes = <<>>
    /\ sceneMeshes = <<>>
    /\ MatInit
    /\ HierInit

NextMaterials ==
    \/ Import_GenerateDefaultMaterial
    \/ MeshLoop_Skip
    \/ MeshLoop_Body
    \/ Import_BuildMeshList
    \/ BuildMaterialIndices_Convert
    \/ BuildMaterialIndices_Assign
    \/ BuildMaterialIndices_Finish

SpecMaterials == InitMaterials /\ [][NextMaterials]_vars

(***************************************************************************)
(* Animation assembler: BuildAnimations.  A key time is a natural number    *)
(* or NaN; a key value is a tag that names the key.                         *)
(***************************************************************************)
MaxKeys == 3

\* a double that is not a number, as memory outside an array may hold
NaN == -1

\* operator< of double
LessThan(a, b) == a # NaN /\ b # NaN /\ a < b

\* std::max(a, b): (a < b) ? b : a
stdmax(a, b) == IF LessThan(a, b) THEN b ELSE a

\* lines 262-266 and 277-281: the running maximum over the key times
RECURSIVE MaxTime(_, _)
MaxTime(d, keys) ==
    IF keys = <<>> THEN d
    ELSE MaxTime(stdmax(d, Head(keys).mTime), Tail(keys))

\* the mutant counts the position keys only
Animated_PositionsOnly(mesh) ==
    Len(mesh.mAnim.akeyPositions) > 1

\* lines 231 and 248
Animated(mesh) ==
    Len(mesh.mAnim.akeyPositions) > 1 \/ Len(mesh.mAnim.akeyRotations) > 1

\* lines 226-233
CountAnimated(meshes) ==
    Len(SelectSeq(meshes, LAMBDA m : ~ m.bSkip /\ Animated(m)))

\* aiAnimation::aiAnimation()
NewAnimation == [mDuration |-> 0, mNumBones |-> 0, mBones |-> <<>>]

\* lines 226-243
BuildAnimations_Begin ==
    /\ pc = "BuildAnimations"
    /\ LET iNum == CountAnimated(m_vMeshes)
       IN  IF iNum # 0
             THEN /\ mAnimations' = <<[NewAnimation EXCEPT !.mNumBones = iNum]>>
                  /\ animIt' = [i |-> 0, iNum |-> 0]
                  /\ pc' = "AnimationChannels"
             ELSE /\ pc' = "BuildAnimationsDone"
                  /\ UNCHANGED animVars
    /\ UNCHANGED <<parserVars, importVars, sceneMeshes, matVars, hierVars, resVars>>

\* lines 245-248: a mesh without a channel
BuildAnimations_Skip ==
    /\ pc = "AnimationChannels"
    /\ animIt.i < Len(m_vMeshes)
    /\ LET mesh == m_vMeshes[animIt.i + 1]
       IN  mesh.bSkip \/ ~ Animated(mesh)
    /\ animIt' = [animIt EXCEPT !.i = @ + 1]
    /\ UNCHANGED <<pc, parserVars, importVars, sceneMeshes, matVars, hierVars,
                   mAnimations, resVars>>

\* what memory outside an array reads as
GarbageTimes == {0, 100, NaN}

\* line 271
RotationKeyCount(anim) == Len(anim.akeyPositions)

\* lines 250-282: the channel of a mesh.  The rotation keys are copied
\* RotationKeyCount of them (line 271) into an array of mNumPositionKeys
\* elements (line 272); the copy reads akeyRotations past its end when it
\* is shorter, which yields the keys in garbage, and writes past the array
\* when that is shorter.
Channel(mesh, garbage) ==
    LET pos  == mesh.mAnim.akeyPositions
        rot  == mesh.mAnim.akeyRotations
        nPos == IF Len(pos) > 1 THEN Len(pos) ELSE 0
        nRot == IF Len(rot) > 1 THEN RotationKeyCount(mesh.mAnim) ELSE 0
    IN  [mBoneName |-> mesh.mName,
         mNumPositionKeys |-> nPos,
         mPositionKeys |-> IF Len(pos) > 1 THEN pos ELSE <<>>,
         mNumRotationKeys |-> nRot,
         mRotationKeys |-> [j \in 1 .. nRot |->
                               IF j <= Len(rot) THEN rot[j]
                                                ELSE garbage[j - Len(rot)]]]

\* the rotation keys read past the end of akeyRotations by line 274
OverRead(mesh) ==
    LET rot  == mesh.mAnim.akeyRotations
        nRot == IF Len(rot) > 1 THEN RotationKeyCount(mesh.mAnim) ELSE 0
    IN  IF nRot > Len(rot) THEN nRot - Len(rot) ELSE 0

\* line 274 writes past the array allocated by line 272
OverWrite(mesh) ==
    LET pos  == mesh.mAnim.akeyPositions
        rot  == mesh.mAnim.akeyRotations
        nPos == IF Len(pos) > 1 THEN Len(pos) ELSE 0
        nRot == IF Len(rot) > 1 THEN RotationKeyCount(mesh.mAnim) ELSE 0
    IN  nRot > nPos

\* lines 249-283, one pass of the second loop
BuildAnimations_Channel ==
    /\ pc = "AnimationChannels"
    /\ animIt.i < Len(m_vMeshes)
    /\ LET mesh == m_vMeshes[animIt.i + 1]
       IN  /\ ~ mesh.bSkip
           /\ Animated(mesh)
           /\ \/ \E garbage \in [1 .. OverRead(mesh) ->
                                    [mTime : GarbageTimes, mValue : {"garbage"}]] :
                    LET ch == Channel(mesh, garbage)
                        d  == MaxTime(MaxTime(mAnimations[1].mDuration,
                                              ch.mPositionKeys), ch.mRotationKeys)
                    IN  /\ mAnimations' =
                              <<[mAnimations[1] EXCEPT !.mBones = Append(@, ch),
                                                       !.mDuration = d]>>
                        /\ animIt' = [i |-> animIt.i + 1, iNum |-> animIt.iNum + 1]
                        /\ pc' = pc
              \/ /\ OverRead(mesh) > 0 \/ OverWrite(mesh)
                 /\ pc' = "Crash"
                 /\ UNCHANGED animVars
    /\ UNCHANGED <<parserVars, importVars, sceneMeshes, matVars, hierVars, resVars>>

\* line 245: the end of the second loop, and the return
BuildAnimations_End ==
    /\ pc = "AnimationChannels"
    /\ animIt.i = Len(m_vMeshes)
    /\ pc' = "BuildAnimationsDone"
    /\ UNCHANGED <<parserVars, importVars, sceneMeshes, matVars, hierVars, animVars,
                   resVars>>

\* position keys at times 0, 1, ...
\* rotation keys at ascending times 0, 1, ... or descending times n+1, n, ...
PositionKeys(n) == [j \in 1 .. n |-> [mTime |-> j - 1, mValue |-> <<"position", j>>]]
RotationKeysUp(n) == [j \in 1 .. n |-> [mTime |-> j - 1, mValue |-> <<"rotation", j>>]]
RotationKeysDown(n) ==
    [j \in 1 .. n |-> [mTime |-> n + 2 - j, mValue |-> <<"rotation", j>>]]

\* the raw meshes as BuildAnimations reads them; a skipped mesh has two
\* position keys
AnimMeshes ==
    { [mName |-> <<>>, bSkip |-> FALSE,
       mAnim |-> [akeyPositions |-> PositionKeys(x[1]), akeyRotations |-> x[2]]] :
         x \in (0 .. MaxKeys) \X
               ({RotationKeysUp(n) : n \in 0 .. MaxKeys}
                  \cup {RotationKeysDown(n) : n \in 0 .. MaxKeys}) }
    \cup
    { [mName |-> <<>>, bSkip |-> TRUE,
       mAnim |-> [akeyPositions |-> PositionKeys(2), akeyRotations |-> <<>>]] }

\* BuildNodes has returned, so some mesh is not skipped; the k-th mesh is
\* named "A", "B", ...
InitAnim ==
    /\ pc = "BuildAnimations"
    /\ \E n \in 1 .. MaxMatMeshes :
          \E x \in [1 .. n -> AnimMeshes] :
             /\ \E k \in 1 .. n : ~ x[k].bSkip
             /\ m_vMeshes = [k \in 1 .. n |-> [x[k] EXCEPT !.mName = <<64 + k>>]]
    /\ m_vMaterials = <<>>
    /\ hParsed = m_vMeshes
    /\ meshIt = Len(m_vMeshes)
    /\ avOutMeshes = <<>>
    /\ sceneMeshes = <<>>
    /\ MatInit
    /\ HierInit

NextAnim ==
    \/ BuildAnimations_Begin
    \/ BuildAnimations_Skip
    \/ BuildAnimations_Channel
    \/ BuildAnimations_End

SpecAnim == InitAnim /\ [][NextAnim]_vars

(***************************************************************************)
(* InternReadFile from the opening of the file to its return or to the      *)
(* exception that ends it, on files of up to MaxMatMeshes meshes: the k-th  *)
(* mesh is named "A", "B", ..., has no parent, the parent "A" or a parent   *)
(* "Z" that no mesh carries, has one face or none, and two position keys    *)
(* or none.                                                                 *)
(***************************************************************************)
\* lines 108-135: the file cannot be opened and the exception of line 113
\* is thrown, or the buffer and the parser are allocated and the file is
\* parsed
Import_Open ==
    /\ pc = "InternReadFile"
    /\ \/ /\ pc' = "OpenFailed"
          /\ UNCHANGED <<mBuffer, mParser>>
       \/ /\ mBuffer' = "allocated"
          /\ mParser' = "allocated"
          /\ pc' = "GenerateDefaultMaterial"
    /\ UNCHANGED <<parserVars, importVars, sceneMeshes, matVars, hierVars, animVars,
                   canRead>>

\* lines 182-185: BuildNodes has returned
Import_BuildAnimations ==
    /\ pc = "BuildNodesDone"
    /\ pc' = "BuildAnimations"
    /\ UNCHANGED <<parserVars, importVars, sceneMeshes, matVars, hierVars, animVars,
                   resVars>>

\* lines 187-190
Import_DeleteParser ==
    /\ pc = "BuildAnimationsDone"
    /\ mParser' = "null"
    /\ pc' = "Done"
    /\ UNCHANGED <<parserVars, importVars, sceneMeshes, matVars, hierVars, animVars,
                   mBuffer, canRead>>

FileMeshes ==
    { [mName |-> <<>>, mParent |-> x[1], bSkip |-> FALSE,
       iMaterialIndex |-> DEFAULT_MATINDEX,
       mTransform |-> Rotation,
       mPositions |-> WorldVertices,
       mNormals |-> <<>>,
       mFaces |-> x[2],
       mBones |-> <<>>,
       mBoneVertices |-> <<>>,
       mAnim |-> [akeyPositions |-> x[3], akeyRotations |-> <<>>]] :
         x \in {<<>>, <<65>>, <<90>>} \X {<<>>, FacesOn(<<0>>)}
                 \X {<<>>, PositionKeys(2)} }
    \cup
    { [mName |-> <<>>, mParent |-> <<>>, bSkip |-> TRUE,
       iMaterialIndex |-> DEFAULT_MATINDEX,
       mTransform |-> Rotation,
       mPositions |-> WorldVertices,
       mNormals |-> <<>>,
       mFaces |-> FacesOn(<<0>>),
       mBones |-> <<>>,
       mBoneVertices |-> <<>>,
       mAnim |-> [akeyPositions |-> PositionKeys(2), akeyRotations |-> <<>>]] }

InitImport ==
    /\ pc = "InternReadFile"
    /\ \E n \in 0 .. MaxMatMeshes :
          \E x \in [1 .. n -> FileMeshes] :
             m_vMeshes = [k \in 1 .. n |-> [x[k] EXCEPT !.mName = <<64 + k>>]]
    /\ m_vMaterials \in {<<>>, <<Material(0)>>}
    /\ hParsed = m_vMeshes
    /\ hMaterials = m_vMaterials
    /\ meshIt = 0
    /\ avOutMeshes = <<>>
    /\ sceneMeshes = <<>>
    /\ mNumMaterials = 0
    /\ mMaterials = <<>>
    /\ pcIntMaterials = <<>>
    /\ matIt = [pos |-> 1, iNum |-> 0]
    /\ hKeys = <<>>
    /\ hRewrites = <<>>
    /\ mAnimations = <<>>
    /\ animIt = [i |-> 0, iNum |-> 0]
    /\ mBuffer = "null"
    /\ mParser = "null"
    /\ canRead = <<>>
    /\ HierInit

NextImport ==
    \/ Import_Open
    \/ Import_GenerateDefaultMaterial
    \/ MeshLoop_Skip
    \/ MeshLoop_Body
    \/ Import_BuildMeshList
    \/ BuildMaterialIndices_Convert
    \/ BuildMaterialIndices_Assign
    \/ BuildMaterialIndices_Finish
    \/ BuildNodes_Begin
    \/ AddNodes_Skip
    \/ AddNodes_Match
    \/ AddNodes_Return
    \/ BuildNodes_FindOrphans
    \/ BuildNodes_OrphanStep
    \/ BuildNodes_OrphansEnd
    \/ BuildNodes_Finish
    \/ Import_BuildAnimations
    \/ BuildAnimations_Begin
    \/ BuildAnimations_Skip
    \/ BuildAnimations_Channel
    \/ BuildAnimations_End
    \/ Import_DeleteParser

SpecImport == InitImport /\ [][NextImport]_vars

(***************************************************************************)
(* CanRead on every path of up to MaxPathLen characters over ".", "a",      *)
(* "A", "s", "e", "K" and "x".                                              *)
(***************************************************************************)
MaxPathLen == 5

PathChars == {46, 97, 65, 115, 101, 75, 120}

\* std::string::npos
npos == -1

\* std::string::find_last_of('.'): the 0-based position of the last '.'
find_last_of_dot(str) ==
    LET dots == { k \in 1 .. Len(str) : str[k] = 46 }
    IN  IF dots = {} THEN npos
        ELSE (CHOOSE k \in dots : \A k2 \in dots : k2 <= k) - 1

\* std::string::substr(pos)
substr(str, pos) == SubSeq(str, pos + 1, Len(str))

\* lines 80-102
CanRead(pFile) ==
    LET pos       == find_last_of_dot(pFile)
        extension == substr(pFile, pos)
    IN  IF pos = npos THEN FALSE
        ELSE IF Len(extension) < 4 THEN FALSE
        ELSE IF extension[1] # 46 THEN FALSE
        ELSE IF extension[2] # 97 /\ extension[2] # 65 THEN FALSE
        ELSE IF extension[3] # 115 /\ extension[3] # 83 THEN FALSE
        ELSE IF /\ extension[4] # 101 /\ extension[4] # 69
                /\ extension[4] # 107 /\ extension[4] # 75 THEN FALSE
        ELSE TRUE

\* a call of CanRead
CanRead_Call ==
    /\ pc = "CanRead"
    /\ canRead' = [canRead EXCEPT !.result = CanRead(canRead.pFile)]
    /\ pc' = "CanReadDone"
    /\ UNCHANGED <<parserVars, importVars, sceneMeshes, matVars, hierVars, animVars,
                   mBuffer, mParser>>

InitCanRead ==
    /\ pc = "CanRead"
    /\ \E n \in 0 .. MaxPathLen :
          \E pFile \in [1 .. n -> PathChars] :
             canRead = [pFile |-> pFile, result |-> FALSE]
    /\ m_vMeshes = <<>>
    /\ m_vMaterials = <<>>
    /\ hParsed = <<>>
    /\ hMaterials = <<>>
    /\ meshIt = 0
    /\ avOutMeshes = <<>>
    /\ sceneMeshes = <<>>
    /\ mNumMaterials = 0
    /\ mMaterials = <<>>
    /\ pcIntMaterials = <<>>
    /\ matIt = [pos |-> 1, iNum |-> 0]
    /\ hKeys = <<>>
    /\ hRewrites = <<>>
    /\ mAnimations = <<>>
    /\ animIt = [i |-> 0, iNum |-> 0]
    /\ mBuffer = "null"
    /\ mParser = "null"
    /\ HierInit

NextCanRead == CanRead_Call

SpecCanRead == InitCanRead /\ [][NextCanRead]_vars

(***************************************************************************)
(* Properties of the corner expander and of the mesh splitter.              *)
(***************************************************************************)
RawIds == 1 .. Len(m_vMeshes)

\* raw mesh k has been through BuildUniqueRepresentation
Expanded(k) ==
    /\ ~ m_vMeshes[k].bSkip
    /\ \/ k <= meshIt
       \/ k = meshIt + 1 /\ pc \in {"GenerateNormals", "ConvertMeshes"}

\* raw mesh k has been through ConvertMeshes
Converted(k) == ~ m_vMeshes[k].bSkip /\ k <= meshIt

\* C5: after the corner expander, position 3f+c of a mesh is the source
\* position at index c of source face f, and the indices of face f are
\* (3f+2, 3f+1, 3f).
C5_CornerExpansion ==
    \A k \in RawIds : Expanded(k) =>
        LET src == hParsed[k]
            new == m_vMeshes[k]
        IN  /\ Len(new.mFaces) = Len(src.mFaces)
            /\ \A f \in 0 .. Len(src.mFaces) - 1 :
                  /\ new.mFaces[f + 1].mIndices = <<3 * f + 2, 3 * f + 1, 3 * f>>
                  /\ \A c \in 0 .. 2 :
                        new.mPositions[3 * f + c + 1] =
                            src.mPositions[src.mFaces[f + 1].mIndices[c + 1] + 1]

\* two faces have been expanded, the second from the indices (1, 3, 2)
C5_Witness ==
    /\ pc = "GenerateNormals"
    /\ Len(hParsed[1].mFaces) = 2
    /\ hParsed[1].mFaces[2].mIndices = <<1, 3, 2>>
    /\ m_vMeshes[1].mFaces[2].mIndices = <<5, 4, 3>>

\* the material of an output mesh has submaterials: the mesh stems from
\* the split branch
FromSplit(m) == m_vMaterials[m.mColors3 + 1].avSubMaterials # <<>>

\* C6 as claimed: in every output mesh of either branch, index c of face f
\* is below the number of positions and equals 3f+2-c.
C6_DescendingInBothBranches ==
    \A j \in 1 .. Len(avOutMeshes) :
        LET m == avOutMeshes[j]
        IN  \A f \in 0 .. m.mNumFaces - 1 : \A c \in 0 .. 2 :
                /\ m.mFaces[f + 1][c + 1] < Len(m.mVertices)
                /\ m.mFaces[f + 1][c + 1] = 3 * f + 2 - c

\* C6, amended: in every output mesh, index c of face f is below the
\* number of positions; it equals 3f+2-c in the direct-copy branch and
\* 3f+c in the submaterial-split branch.
C6_FaceIndicesByBranch ==
    \A j \in 1 .. Len(avOutMeshes) :
        LET m == avOutMeshes[j]
        IN  /\ Len(m.mFaces) = m.mNumFaces
            /\ Len(m.mVertices) = m.mNumVertices
            /\ \A f \in 0 .. m.mNumFaces - 1 : \A c \in 0 .. 2 :
                  /\ m.mFaces[f + 1][c + 1] < Len(m.mVertices)
                  /\ m.mFaces[f + 1][c + 1] =
                        IF FromSplit(m) THEN 3 * f + c ELSE 3 * f + 2 - c

\* the split branch has emitted a mesh of two faces
C6_Witness ==
    /\ pc = "MeshLoop"
    /\ \E j \in 1 .. Len(avOutMeshes) :
          /\ FromSplit(avOutMeshes[j])
          /\ avOutMeshes[j].mNumFaces = 2
          /\ avOutMeshes[j].mFaces[2] = <<3, 4, 5>>

RECURSIVE SumSeq(_)
SumSeq(q) == IF q = <<>> THEN 0 ELSE Head(q) + SumSeq(Tail(q))

\* the output meshes of raw mesh k, and those among them of submaterial p
OutputsOf(k) == SelectSeq(avOutMeshes, LAMBDA m : m.mColors2 = k)
OutputsOfSub(k, p) == SelectSeq(OutputsOf(k), LAMBDA m : m.mMaterialIndex = p)

FaceCounts(ms) == [j \in 1 .. Len(ms) |-> ms[j].mNumFaces]

\* C7: the output meshes of a raw mesh whose material has submaterials
\* hold as many faces as the raw mesh; submaterial p gets at most one
\* output mesh, with the faces of id p, and the last one also gets the
\* faces whose id is out of range.
C7_FacesConserved ==
    \A k \in RawIds : Converted(k) =>
        LET nSub  == Len(m_vMaterials[m_vMeshes[k].iMaterialIndex + 1].avSubMaterials)
            faces == hParsed[k].mFaces
            ids(p) == { f \in 1 .. Len(faces) :
                          \/ faces[f].iMaterial = p
                          \/ p = nSub - 1 /\ faces[f].iMaterial >= nSub }
        IN  nSub > 0 =>
              /\ SumSeq(FaceCounts(OutputsOf(k))) = Len(faces)
              /\ \A p \in 0 .. nSub - 1 :
                    /\ Len(OutputsOfSub(k, p)) <= 1
                    /\ SumSeq(FaceCounts(OutputsOfSub(k, p))) = Cardinality(ids(p))

\* a raw mesh of two faces, one with an id out of range, has been split in
\* two output meshes over two submaterials
C7_Witness ==
    /\ Converted(1)
    /\ Len(m_vMaterials[1].avSubMaterials) = 2
    /\ Len(hParsed[1].mFaces) = 2
    /\ hParsed[1].mFaces[1].iMaterial = 0
    /\ hParsed[1].mFaces[2].iMaterial = 2
    /\ Len(OutputsOf(1)) = 2

(***************************************************************************)
(* Properties of the hierarchy build.                                       *)
(***************************************************************************)
\* name and parent name of output mesh i (0-based), which stems from raw
\* mesh i in the hierarchy specification
NameOf(i) == m_vMeshes[i + 1].mName
ParentNameOf(i) == m_vMeshes[i + 1].mParent

MeshIds == 0 .. NumMeshes - 1

Lower(s) == [k \in 1 .. Len(s) |-> tolower(s[k])]
EqualNoCase(s, t) == Lower(s) = Lower(t)

Range(q) == { q[k] : k \in 1 .. Len(q) }

RECURSIVE Reach(_)
Reach(S) ==
    LET T == S \cup UNION { Range(nodes[n].mChildren) : n \in S }
    IN  IF T = S THEN S ELSE Reach(T)

\* the nodes of the tree below the scene root
TreeNodes == IF mRootNode = NULL THEN {} ELSE Reach({mRootNode})

LiveNodes == { n \in 1 .. Len(nodes) : ~ nodes[n].freed }

\* the nodes of the tree that carry mesh i
NodesOfMesh(i) == { n \in TreeNodes : i \in Range(nodes[n].mMeshes) }

BuildNodesReturned == pc = "BuildNodesDone"
BuildNodesEnded == pc \in {"BuildNodesDone", "EmptyScene"}

\* C1: after a hierarchy build that succeeds, every surviving output mesh
\* is attached to exactly one node of the tree.
C1_EveryMeshOnExactlyOneNode ==
    BuildNodesReturned =>
        \A i \in MeshIds : Cardinality(NodesOfMesh(i)) = 1

\* a mesh whose non-empty parent name is the name of no other output mesh
IsTopLevelOrphan(i) ==
    /\ ParentNameOf(i) # <<>>
    /\ \A i2 \in MeshIds \ {i} : ~ EqualNoCase(ParentNameOf(i), NameOf(i2))

\* C2: when BuildNodes ends, every top-level orphan hangs under a synthetic
\* node that is named after the orphan's parent and is a child of <root>,
\* the meshes naming the orphan as parent hang under the orphan, and the
\* import has not failed.
C2_OrphanUnderSyntheticNode ==
    BuildNodesEnded =>
        \A i \in MeshIds : IsTopLevelOrphan(i) =>
            /\ BuildNodesReturned
            /\ \E s \in TreeNodes, n \in TreeNodes :
                  /\ nodes[s].mNumMeshes = 0
                  /\ nodes[s].mName = ParentNameOf(i)
                  /\ s = mRootNode \/ nodes[s].mParent = mRootNode
                  /\ n \in Range(nodes[s].mChildren)
                  /\ nodes[n].mMeshes = <<i>>
                  /\ \A j \in MeshIds :
                        EqualNoCase(ParentNameOf(j), NameOf(i)) =>
                            \E c \in Range(nodes[n].mChildren) :
                                nodes[c].mMeshes = <<j>>

\* the meshes carried by the children of node p, in child order
ChildMeshes(p) ==
    [k \in 1 .. Len(nodes[p].mChildren) |-> nodes[nodes[p].mChildren[k]].mMeshes[1]]

\* node 1 is <root>, whose AddNodes call has no name
ShouldBeChild(i, p) ==
    IF p = 1 THEN ParentNameOf(i) = <<>>
             ELSE EqualNoCase(ParentNameOf(i), nodes[p].mName)

AllAddNodesReturned ==
    pc \in {"FindOrphans", "Orphans", "Finish", "BuildNodesDone", "EmptyScene"}

\* C3: once the AddNodes calls have returned, the children of a node are
\* the nodes of exactly the meshes whose parent name equals the node's name
\* without regard to case, and the children of <root> those of exactly the
\* meshes with an empty parent name.
C3_ChildrenAreTheMatches ==
    AllAddNodesReturned =>
        \A p \in LiveNodes :
            /\ ChildMeshes(p) = SelectSeq([k \in 1 .. NumMeshes |-> k - 1],
                                          LAMBDA i : ShouldBeChild(i, p))
            /\ \A c \in Range(nodes[p].mChildren) :
                  nodes[c].mNumMeshes = 1 /\ (c = mRootNode \/ nodes[c].mParent = p)

\* a node named "A" has a child whose mesh names "A" and one whose mesh
\* names "a" as its parent
C3_Witness ==
    /\ BuildNodesReturned
    /\ \E p \in LiveNodes :
          /\ nodes[p].mName = <<65>>
          /\ \E c1 \in Range(nodes[p].mChildren), c2 \in Range(nodes[p].mChildren) :
                /\ ParentNameOf(nodes[c1].mMeshes[1]) = <<65>>
                /\ ParentNameOf(nodes[c2].mMeshes[1]) = <<97>>

\* C4: the scene root follows from the number of children of <root>: none
\* is the EmptyScene error, one makes that child the root and <root> is
\* deleted, more keep <root>; the root has no parent, and every other node
\* has a parent that lists it among its children.
C4_RootByChildCount ==
    /\ pc = "EmptyScene" => hRootChildren = 0
    /\ BuildNodesReturned =>
          /\ hRootChildren >= 1
          /\ hRootChildren = 1 =>
                /\ mRootNode # 1
                /\ nodes[1].freed
                /\ nodes[mRootNode].mNumMeshes = 1
                /\ ParentNameOf(nodes[mRootNode].mMeshes[1]) = <<>>
          /\ hRootChildren >= 2 =>
                /\ mRootNode = 1
                /\ ~ nodes[1].freed
                /\ nodes[1].mNumChildren = hRootChildren
          /\ nodes[mRootNode].mParent = NULL
          /\ \A n \in LiveNodes \ {mRootNode} :
                /\ nodes[n].mParent # NULL
                /\ nodes[n].mParent \in LiveNodes
                /\ n \in Range(nodes[nodes[n].mParent].mChildren)

\* the only child of <root> has replaced it and has children of its own
C4_Witness ==
    /\ BuildNodesReturned
    /\ hRootChildren = 1
    /\ nodes[mRootNode].mNumChildren >= 1
    /\ nodes[mRootNode].mParent = NULL


\* raw mesh k has been through BuildUniqueRepresentation and not yet
\* through GenerateNormals
ExpandedOnly(k) ==
    ~ m_vMeshes[k].bSkip /\ k = meshIt + 1 /\ pc = "GenerateNormals"

\* raw mesh k has been through GenerateNormals
HasNormals(k) ==
    /\ ~ m_vMeshes[k].bSkip
    /\ \/ k <= meshIt
       \/ k = meshIt + 1 /\ pc = "ConvertMeshes"

\* C17 as claimed: after the corner expander and before any later stage,
\* a mesh has as many positions as normals, three for each face, whether
\* or not the source mesh had normals.
C17_ThreePerFaceAfterExpander ==
    \A k \in RawIds : ExpandedOnly(k) =>
        /\ Len(m_vMeshes[k].mPositions) = 3 * Len(m_vMeshes[k].mFaces)
        /\ Len(m_vMeshes[k].mNormals) = 3 * Len(m_vMeshes[k].mFaces)

\* C17 as amended: after the corner expander a mesh has three positions for
\* each face, and three normals for each face if the source mesh had
\* normals, none otherwise; after the normal generator it has as many
\* positions as normals, three for each face.
C17_ThreePerFaceAfterNormals ==
    \A k \in RawIds :
        /\ ExpandedOnly(k) =>
              /\ Len(m_vMeshes[k].mPositions) = 3 * Len(m_vMeshes[k].mFaces)
              /\ Len(m_vMeshes[k].mNormals) =
                    IF hParsed[k].mNormals # <<>>
                      THEN 3 * Len(m_vMeshes[k].mFaces) ELSE 0
        /\ HasNormals(k) =>
              /\ Len(m_vMeshes[k].mPositions) = 3 * Len(m_vMeshes[k].mFaces)
              /\ Len(m_vMeshes[k].mNormals) = 3 * Len(m_vMeshes[k].mFaces)

\* a mesh of two faces that was parsed without normals has been through
\* the normal generator
C17_Witness ==
    /\ pc = "ConvertMeshes"
    /\ hParsed[1].mNormals = <<>>
    /\ Len(hParsed[1].mFaces) = 2
    /\ Len(m_vMeshes[1].mNormals) = 6

\* C18: after the corner expander, a mesh of F faces that was parsed with
\* bone vertices has 3F bone vertices, and the one at 3f+c is the source
\* bone vertex at index c of source face f whenever that index is in range.
C18_BoneVerticesExpanded ==
    \A k \in RawIds : (Expanded(k) /\ hParsed[k].mBoneVertices # <<>>) =>
        LET src == hParsed[k]
            new == m_vMeshes[k]
        IN  /\ Len(new.mBoneVertices) = 3 * Len(src.mFaces)
            /\ \A f \in 0 .. Len(src.mFaces) - 1 : \A c \in 0 .. 2 :
                  LET idx == src.mFaces[f + 1].mIndices[c + 1]
                  IN  idx < Len(src.mBoneVertices) =>
                         new.mBoneVertices[3 * f + c + 1] = src.mBoneVertices[idx + 1]

\* C21: in every output mesh of either branch of ConvertMeshes, every
\* emitted bone has at least one weight and every weight of it has a
\* vertex id below the mesh's number of vertices, three per face; also
\* when the raw mesh has more positions or bone vertices than face corners.
C21_BoneWeightsInRange ==
    \A j \in 1 .. Len(avOutMeshes) :
        LET m == avOutMeshes[j]
        IN  /\ Len(m.mBones) = m.mNumBones
            /\ \A b \in 1 .. m.mNumBones :
                  /\ m.mBones[b].mNumWeights >= 1
                  /\ Len(m.mBones[b].mWeights) = m.mBones[b].mNumWeights
                  /\ \A w \in 1 .. m.mBones[b].mNumWeights :
                        /\ m.mBones[b].mWeights[w].mVertexId < m.mNumVertices
                        /\ m.mBones[b].mWeights[w].mVertexId < 3 * m.mNumFaces

\* C22: the hierarchy build that AddNodes starts from <root> ends, by
\* returning or by the empty-scene error, on every finite list of output
\* meshes: also when meshes share a name, when a mesh names itself as its
\* parent, or when the parent references form a cycle.
C22_HierarchyBuildTerminates == <>BuildNodesEnded

(***************************************************************************)
(* Properties of the default material and of the material flattener.        *)
(***************************************************************************)
BuildMaterialIndicesEnded == pc \in {"BuildNodes", "OutOfBounds"}

\* the material or submaterial a composite key names, as an entry of
\* PreOrder
EntryOfKey(key) ==
    <<key[1], IF key[2] = DEFAULT_MATINDEX THEN -1 ELSE key[2]>>

\* the output slots (0-based) that hold the material or submaterial e
SlotsOf(e) == { j \in 0 .. Len(pcIntMaterials) - 1 : pcIntMaterials[j + 1] = e }

ReferencedByScene(e) ==
    \E k \in 1 .. Len(hKeys) : EntryOfKey(hKeys[k]) = e

\* C8: once BuildMaterialIndices has ended, a material or submaterial has a
\* slot in the output material table if and only if a mesh of the scene
\* referenced it before the flattening; a material referenced only by a
\* raw mesh without faces, or by no mesh, has no slot.
C8_SlotIffReferenced ==
    BuildMaterialIndicesEnded =>
        \A j \in 1 .. Len(PreOrder(m_vMaterials)) :
            LET e == PreOrder(m_vMaterials)[j]
            IN  SlotsOf(e) # {} <=> ReferencedByScene(e)

\* C9: once BuildMaterialIndices has ended, every mesh of the scene has a
\* material index below mNumMaterials, the slot at that index is the one
\* of the material its composite key names and holds that material's
\* container, and meshes of different keys have different indices.
C9_IndexMatchesKey ==
    /\ pc # "OutOfBounds"
    /\ pc = "BuildNodes" =>
          /\ \A k \in 1 .. Len(sceneMeshes) :
                LET i == sceneMeshes[k].mMaterialIndex
                    e == EntryOfKey(hKeys[k])
                IN  /\ i < mNumMaterials
                    /\ pcIntMaterials[i + 1] = e
                    /\ mMaterials[i + 1] = MaterialAt(m_vMaterials, e).pcInstance
                    /\ mMaterials[i + 1] # NULL
          /\ \A k1, k2 \in 1 .. Len(sceneMeshes) :
                hKeys[k1] # hKeys[k2] =>
                    sceneMeshes[k1].mMaterialIndex # sceneMeshes[k2].mMaterialIndex

\* two meshes of the scene on different submaterials of different
\* materials, one of them on an index that is not its submaterial id
C9_Witness ==
    /\ pc = "BuildNodes"
    /\ \E k1, k2 \in 1 .. Len(sceneMeshes) :
          /\ hKeys[k1][1] # hKeys[k2][1]
          /\ hKeys[k1][2] = hKeys[k2][2]
          /\ hKeys[k1][2] # DEFAULT_MATINDEX
          /\ sceneMeshes[k2].mMaterialIndex # hKeys[k2][2]

GenerateDefaultMaterialReturned == pc = "MeshLoop" /\ meshIt = 0

HadDefaultIndex(k) ==
    ~ hParsed[k].bSkip /\ hParsed[k].iMaterialIndex = DEFAULT_MATINDEX

\* C10: GenerateDefaultMaterial appends exactly one material named
\* "DefaultMaterial" if a mesh that is not skipped has DEFAULT_MATINDEX or
\* the material list is empty, and leaves the list unchanged otherwise;
\* the meshes that are not skipped and had DEFAULT_MATINDEX have the index
\* of the appended material, every other mesh keeps its material index.
C10_DefaultMaterial ==
    GenerateDefaultMaterialReturned =>
        LET wanted == (\E k \in 1 .. Len(hParsed) : HadDefaultIndex(k))
                      \/ hMaterials = <<>>
        IN  /\ Len(m_vMeshes) = Len(hParsed)
            /\ IF wanted
                 THEN /\ Len(m_vMaterials) = Len(hMaterials) + 1
                      /\ SubSeq(m_vMaterials, 1, Len(hMaterials)) = hMaterials
                      /\ m_vMaterials[Len(m_vMaterials)].mName
                            = AI_DEFAULT_MATERIAL_NAME
                      /\ m_vMaterials[Len(m_vMaterials)].avSubMaterials = <<>>
                 ELSE m_vMaterials = hMaterials
            /\ \A k \in 1 .. Len(hParsed) :
                  m_vMeshes[k].iMaterialIndex =
                      IF HadDefaultIndex(k) THEN Len(hMaterials)
                                            ELSE hParsed[k].iMaterialIndex

\* a parsed material, a mesh redirected to the appended default material
\* and a skipped mesh that keeps DEFAULT_MATINDEX
C10_Witness ==
    /\ GenerateDefaultMaterialReturned
    /\ hMaterials # <<>>
    /\ Len(m_vMaterials) = Len(hMaterials) + 1
    /\ \E k \in 1 .. Len(hParsed) :
          HadDefaultIndex(k) /\ m_vMeshes[k].iMaterialIndex = Len(hMaterials)
    /\ \E k \in 1 .. Len(hParsed) :
          /\ hParsed[k].bSkip
          /\ m_vMeshes[k].iMaterialIndex = DEFAULT_MATINDEX

\* the materials and submaterials, each as <<iMat, iSubMat>> with
\* iSubMat = -1 for a material itself
MaterialEntries ==
    UNION { { <<i - 1, q>> : q \in -1 .. Len(m_vMaterials[i].avSubMaterials) - 1 } :
            i \in 1 .. Len(m_vMaterials) }

NeededEntries == { e \in MaterialEntries : MaterialAt(m_vMaterials, e).bNeed }

\* entry e1 is before entry e2 when each material is walked before its
\* submaterials and these in list order
Precedes(e1, e2) == e1[1] < e2[1] \/ (e1[1] = e2[1] /\ e1[2] < e2[2])

\* the slots 0 .. mNumMaterials-1 hold exactly the needed entries, each
\* once, in the order of the walk
DenseInPreOrder ==
    /\ Len(pcIntMaterials) = mNumMaterials
    /\ { pcIntMaterials[j] : j \in 1 .. mNumMaterials } = NeededEntries
    /\ \A j1, j2 \in 1 .. mNumMaterials :
          j1 < j2 => Precedes(pcIntMaterials[j1], pcIntMaterials[j2])

\* C19 as claimed: the output indices 0 .. n-1 go in pre-order to exactly
\* the entries marked needed together with every material that has a
\* needed submaterial, so that such a material has a slot before the slots
\* of its submaterials.
C19_ParentsOfNeededHaveSlots ==
    BuildMaterialIndicesEnded =>
        /\ Len(pcIntMaterials) = mNumMaterials
        /\ { pcIntMaterials[j] : j \in 1 .. mNumMaterials } =
              NeededEntries \cup { <<e[1], -1>> : e \in NeededEntries }
        /\ \A j1, j2 \in 1 .. mNumMaterials :
              j1 < j2 => Precedes(pcIntMaterials[j1], pcIntMaterials[j2])

\* C19 as amended: the output indices 0 .. n-1 go in pre-order to exactly
\* the entries marked needed; a material that has submaterials is never
\* marked needed and has no slot, whether or not a submaterial of it is
\* needed.
C19_NeededInPreOrder ==
    BuildMaterialIndicesEnded =>
        /\ DenseInPreOrder
        /\ \A i \in 1 .. Len(m_vMaterials) :
              m_vMaterials[i].avSubMaterials # <<>> => SlotsOf(<<i - 1, -1>>) = {}

\* both submaterials of the first material and the second material have
\* slots 0, 1 and 2
C19_Witness ==
    /\ BuildMaterialIndicesEnded
    /\ pcIntMaterials = << <<0, 0>>, <<0, 1>>, <<1, -1>> >>

\* C20: BuildMaterialIndices rewrites the material index of every mesh of
\* the scene exactly once: no iteration matches a mesh that an earlier one
\* has rewritten, and at the end the top-level material id of every mesh
\* is cleared.
C20_RewrittenExactlyOnce ==
    /\ \A k \in 1 .. Len(hRewrites) : hRewrites[k] <= 1
    /\ BuildMaterialIndicesEnded =>
          \A k \in 1 .. Len(sceneMeshes) :
              /\ hRewrites[k] = 1
              /\ sceneMeshes[k].mColors3 = NULL

\* two meshes on the submaterials of the second material have been
\* rewritten, the first of them to index 0, with iterations still to come
C20_Witness ==
    /\ pc = "AssignMaterials"
    /\ matIt.pos <= Len(PreOrder(m_vMaterials))
    /\ \E k \in 1 .. Len(sceneMeshes) :
          /\ hKeys[k][1] = 1
          /\ hKeys[k][2] # DEFAULT_MATINDEX
          /\ hRewrites[k] = 1
          /\ sceneMeshes[k].mMaterialIndex = 0
          /\ sceneMeshes[k].mColors3 = NULL

(***************************************************************************)
(* Properties of the animation assembler.                                   *)
(***************************************************************************)
BuildAnimationsReturned == pc = "BuildAnimationsDone"

\* the raw meshes (1-based) that are not skipped and have more than one
\* position key or more than one rotation key, in mesh order
Qualifying ==
    SelectSeq([k \in 1 .. Len(hParsed) |-> k],
              LAMBDA k : /\ ~ hParsed[k].bSkip
                         /\ \/ Len(hParsed[k].mAnim.akeyPositions) > 1
                            \/ Len(hParsed[k].mAnim.akeyRotations) > 1)

\* C11: BuildAnimations emits no animation when no mesh that is not
\* skipped has more than one position key or more than one rotation key;
\* otherwise it emits exactly one animation with one channel per such mesh,
\* in mesh order, each named after its mesh.  The scene never has more than
\* one animation.
C11_OneChannelPerAnimatedMesh ==
    /\ Len(mAnimations) <= 1
    /\ BuildAnimationsReturned =>
          IF Qualifying = <<>>
            THEN mAnimations = <<>>
            ELSE /\ Len(mAnimations) = 1
                 /\ mAnimations[1].mNumBones = Len(Qualifying)
                 /\ Len(mAnimations[1].mBones) = Len(Qualifying)
                 /\ \A j \in 1 .. Len(Qualifying) :
                       mAnimations[1].mBones[j].mBoneName
                          = hParsed[Qualifying[j]].mName

\* a skipped mesh with keys, then a mesh with rotation keys only: one
\* channel, named after the second mesh
C11_Witness ==
    /\ BuildAnimationsReturned
    /\ Len(hParsed) = 2
    /\ hParsed[1].bSkip
    /\ Len(hParsed[2].mAnim.akeyPositions) = 0
    /\ Len(mAnimations) = 1
    /\ Len(mAnimations[1].mBones) = 1
    /\ mAnimations[1].mBones[1].mBoneName = <<66>>

\* the keys of every channel of the animation
EmittedKeys ==
    UNION { { ch.mPositionKeys[j] : j \in 1 .. Len(ch.mPositionKeys) }
              \cup { ch.mRotationKeys[j] : j \in 1 .. Len(ch.mRotationKeys) } :
            ch \in { mAnimations[1].mBones[c] : c \in 1 .. Len(mAnimations[1].mBones) } }

\* C12: the duration of an emitted animation is greater than or equal to
\* the time of every key of every channel and is the maximum of those
\* times.
C12_DurationIsMaxKeyTime ==
    (BuildAnimationsReturned /\ mAnimations # <<>>) =>
        LET d == mAnimations[1].mDuration
        IN  /\ \A key \in EmittedKeys :
                  d # NaN /\ key.mTime # NaN /\ d >= key.mTime
            /\ EmittedKeys # {} => \E key \in EmittedKeys : d = key.mTime

\* C13: every channel holds the position keys of its mesh and the rotation
\* keys of its mesh, in the same order and number; the number of rotation
\* keys is that of the mesh's rotation keys whatever the number of its
\* position keys.
C13_ChannelHoldsTheKeys ==
    (BuildAnimationsReturned /\ mAnimations # <<>>) =>
        \A j \in 1 .. Len(mAnimations[1].mBones) :
            LET ch   == mAnimations[1].mBones[j]
                anim == hParsed[Qualifying[j]].mAnim
            IN  /\ ch.mNumPositionKeys = Len(anim.akeyPositions)
                /\ ch.mPositionKeys = anim.akeyPositions
                /\ ch.mNumRotationKeys = Len(anim.akeyRotations)
                /\ ch.mRotationKeys = anim.akeyRotations

(***************************************************************************)
(* Properties of the transformations of the hierarchy.                      *)
(***************************************************************************)
\* the product of the transformations of the nodes from the root of the
\* tree down to node n
RECURSIVE Accumulated(_)
Accumulated(n) ==
    IF nodes[n].mParent = NULL
      THEN nodes[n].mTransformation
      ELSE Mul(Accumulated(nodes[n].mParent), nodes[n].mTransformation)

\* C14: after the hierarchy build, for every node n that carries mesh m,
\* the accumulated transformation of n applied to the vertices of m gives
\* the vertices m had before the build, and that accumulated transformation
\* is the transformation of the raw mesh.
C14_LocalSpaceRoundTrip ==
    BuildNodesReturned =>
        \A n \in TreeNodes : \A i \in Range(nodes[n].mMeshes) :
            /\ Accumulated(n) = m_vMeshes[i + 1].mTransform
            /\ [v \in 1 .. Len(sceneMeshes[i + 1].mVertices) |->
                   MulVec(Accumulated(n), sceneMeshes[i + 1].mVertices[v])]
                 = WorldVertices

(***************************************************************************)
(* Properties of the import as a whole.                                     *)
(***************************************************************************)
\* an exception has left InternReadFile
ImportAborted == pc \in {"OpenFailed", "EmptyScene"}

\* C15: when the import aborts with a fatal error, the buffer and the
\* parser acquired before the error are released and the scene of the
\* caller holds no mesh, no material and no root node of the failed import.
C15_AbortReleasesEverything ==
    ImportAborted =>
        /\ mBuffer # "allocated"
        /\ mParser # "allocated"
        /\ sceneMeshes = <<>>
        /\ mNumMaterials = 0
        /\ mMaterials = <<>>
        /\ mRootNode = NULL

(***************************************************************************)
(* Properties of CanRead.                                                   *)
(***************************************************************************)
\* the text of the path from its last '.' to its end, empty without a '.'
ExtensionOf(path) ==
    IF \E k \in 1 .. Len(path) : path[k] = 46
      THEN LET last == CHOOSE k \in 1 .. Len(path) :
                          /\ path[k] = 46
                          /\ \A k2 \in k + 1 .. Len(path) : path[k2] # 46
           IN  SubSeq(path, last, Len(path))
      ELSE <<>>

\* C16: CanRead returns true if and only if the extension of the path
\* is ".ase" or ".ask" without regard to case; it returns false for a path
\* without '.', for a shorter extension and for a longer extension that
\* starts with ".ase" or ".ask".
C16_CanReadIffAseOrAsk ==
    pc = "CanReadDone" =>
        (canRead.result <=>
            Lower(ExtensionOf(canRead.pFile))
                \in { <<46, 97, 115, 101>>, <<46, 97, 115, 107>> })

====
